---- MODULE Spec2Model ----
(***************************************************************************)
(* A model of the weather assistant of src/script.js: the browser client   *)
(* (lines 1-75) and the express server (lines 77-271) with its two routes, *)
(* GET /api/weather (TTL cache, geocode, current + forecast, normalize)    *)
(* and POST /api/ai-advice (rule engine, text-generation call, fallbacks). *)
(*                                                                         *)
(* JavaScript strings are sequences of one-character strings, numbers are  *)
(* fixed-point integers in thousandths (36 is 36000, a pop of 0.395 is     *)
(* 395), and NaN, undefined and null are values of their own.              *)
(***************************************************************************)
EXTENDS Integers, Sequences, FiniteSets, TLC

VARIABLES
  now,      \* Date.now(), in milliseconds
  cache,    \* the Map `cache`: a function from the keys present to {data, ts}
  req,      \* the invocations of the /api/weather handler
  adv,      \* the invocation of the /api/ai-advice handler
  env,      \* process.env as read at startup: USE_MOCK_AI, OPENAI_API_KEY
  fcIn,     \* forecast normalization alone: an upstream list ...
  fcOut,    \* ... and its normalized form
  ruleIn,   \* the rule engine alone: a request body ...
  ruleOut,  \* ... and the advice text it gives
  look,     \* the cache alone: the last call of getCache or setCache
  elStatus, \* the client: elStatus.textContent
  run       \* the client: the invocations of run()

vars == <<now, cache, req, adv, env, fcIn, fcOut, ruleIn, ruleOut,
          look, elStatus, run>>

\* ------------------------------------------------------------------------
\* Bounds of the model
\* ------------------------------------------------------------------------
MaxLines == 5     \* lines of a text-generation answer
MaxList == 6      \* entries of an upstream forecast list
NumReq == 2       \* weather requests in flight or answered
MaxTicks == 2     \* clock advances in one behaviour
MaxVersion == 1   \* readings the current-conditions service may give for a place
MaxReads == 2     \* hits of one cache entry that are counted
NumRuns == 2      \* invocations of the client's run()

\* ------------------------------------------------------------------------
\* JavaScript strings
\* ------------------------------------------------------------------------
SetMin(S) == CHOOSE x \in S : \A y \in S : x <= y
SetMax(S) == CHOOSE x \in S : \A y \in S : x >= y

UpperChars == <<"A","B","C","D","E","F","G","H","I","J","K","L","M",
                "N","O","P","Q","R","S","T","U","V","W","X","Y","Z">>
LowerChars == <<"a","b","c","d","e","f","g","h","i","j","k","l","m",
                "n","o","p","q","r","s","t","u","v","w","x","y","z">>
Digits == <<"0","1","2","3","4","5","6","7","8","9">>

LowerChar(c) ==
  IF \E i \in DOMAIN UpperChars : UpperChars[i] = c
  THEN LowerChars[CHOOSE i \in DOMAIN UpperChars : UpperChars[i] = c]
  ELSE c

\* String.prototype.toLowerCase
toLowerCase(s) == [i \in 1..Len(s) |-> LowerChar(s[i])]

\* String.prototype.includes
includes(s, sub) ==
  \E i \in 1..(Len(s) - Len(sub) + 1) : SubSeq(s, i, i + Len(sub) - 1) = sub

IsSpace(c) == c \in {" ", "\t", "\n"}

\* String.prototype.trim
trim(s) ==
  LET keep == {i \in 1..Len(s) : ~IsSpace(s[i])}
  IN IF keep = {} THEN <<>> ELSE SubSeq(s, SetMin(keep), SetMax(keep))

\* ------------------------------------------------------------------------
\* JavaScript scalars and their coercions
\* ------------------------------------------------------------------------
Undefined == [k |-> "undefined", n |-> 0, s |-> <<>>]
JsNull == [k |-> "null", n |-> 0, s |-> <<>>]
NaN == [k |-> "NaN", n |-> 0, s |-> <<>>]
Milli(m) == [k |-> "number", n |-> m, s |-> <<>>]   \* m thousandths
Num(i) == Milli(i * 1000)
Str(cs) == [k |-> "string", n |-> 0, s |-> cs]

IsDigit(c) == \E i \in DOMAIN Digits : Digits[i] = c
DigitVal(c) == (CHOOSE i \in DOMAIN Digits : Digits[i] = c) - 1

RECURSIVE DigitsVal(_)
DigitsVal(cs) ==
  IF cs = <<>> THEN 0
  ELSE 10 * DigitsVal(SubSeq(cs, 1, Len(cs) - 1)) + DigitVal(cs[Len(cs)])

\* Number(v). Of the numeric strings only the unsigned decimal integers are
\* modelled; every other non-blank string used here is not numeric.
Number(v) ==
  CASE v.k = "undefined" -> NaN
    [] v.k = "null" -> Num(0)
    [] v.k = "string" ->
         LET t == trim(v.s)
         IN IF t = <<>> THEN Num(0)
            ELSE IF \A i \in 1..Len(t) : IsDigit(t[i]) THEN Num(DigitsVal(t))
            ELSE NaN
    [] OTHER -> v

\* Number.isNaN
isNaN(v) == v.k = "NaN"

\* the truthiness `||` tests
Truthy(v) ==
  CASE v.k = "number" -> v.n # 0
    [] v.k = "string" -> v.s # <<>>
    [] OTHER -> FALSE

\* a || b
OrElse(a, b) == IF Truthy(a) THEN a ELSE b

\* String(v), for the strings `description || ""` can be
String(v) == v.s

\* a >= b and a <= b of two numbers: false when either is NaN
GE(a, b) == a.k = "number" /\ b.k = "number" /\ a.n >= b.n
LE(a, b) == a.k = "number" /\ b.k = "number" /\ a.n <= b.n

\* Math.round(x * 100): to the nearest integer, halves upwards
RoundTimes100(x) ==
  IF x.k = "number" THEN Num((x.n * 100 + 500) \div 1000) ELSE NaN

\* ------------------------------------------------------------------------
\* POST /api/ai-advice: the request body
\* ------------------------------------------------------------------------
\* `current` and `forecast` of a request body. kind is the JavaScript type of
\* the value; the fields are read only when kind is "object" ("array").
CurrentObject(t, f, h, w, d) ==
  [kind |-> "object", temp |-> t, feels_like |-> f, humidity |-> h,
   wind_speed |-> w, description |-> d]
EmptyObject == CurrentObject(Undefined, Undefined, Undefined, Undefined, Undefined)
CurrentOfKind(kd) == [EmptyObject EXCEPT !.kind = kd]

ForecastItem(p) == [kind |-> "object", pop |-> p]
NullItem == [kind |-> "null", pop |-> Undefined]
ForecastArray(items) == [kind |-> "array", items |-> items]
ForecastOfKind(kd) == [kind |-> kd, items |-> <<>>]

Body(c, f) == [kind |-> "object", current |-> c, forecast |-> f]
NoBody == [kind |-> "undefined", current |-> CurrentOfKind("undefined"),
           forecast |-> ForecastOfKind("undefined")]

\* const { location = {}, current = {}, forecast = [] } = req.body || {}
\* (a default applies to undefined only, so null stays null)
DestructureCurrent(body) ==
  IF body.kind = "undefined" \/ body.current.kind = "undefined"
  THEN EmptyObject ELSE body.current
DestructureForecast(body) ==
  IF body.kind = "undefined" \/ body.forecast.kind = "undefined"
  THEN ForecastArray(<<>>) ELSE body.forecast

\* current.<field>: a TypeError on null, undefined on any other non-object
ReadThrows(current) == current.kind = "null"
Field(current, name) ==
  IF current.kind = "object" THEN current[name] ELSE Undefined

\* forecast?.[0]?.pop
FirstPop(forecast) ==
  IF forecast.kind = "array" /\ forecast.items # <<>>
     /\ forecast.items[1].kind = "object"
  THEN forecast.items[1].pop ELSE Undefined

\* ------------------------------------------------------------------------
\* The rule engine
\* ------------------------------------------------------------------------
\* The tips (the first has a typographic apostrophe in the source).
HeatTip == "It's hot; wear light cotton and drink plenty of water."
LayerTip == "Cool weather; wear a light jacket or sweater."
PleasantTip == "Pleasant temperature; ideal for outdoor tasks."
HumidityTip == "High humidity; choose breathable clothes and stay hydrated."
WindTip == "Breezy; secure loose items and avoid lightweight umbrellas."
UmbrellaTip == "Carry an umbrella; showers expected."
AirTip == "Air quality might be low; consider a mask if sensitive."
ClearTip == "Clear skies; good day for a walk or outing."
BasicTip == "Plan your day with basic precautions."
SafetyTip == "Weather looks manageable; stay safe and carry water."

Rain == <<"r","a","i","n">>
Haze == <<"h","a","z","e">>
Smoke == <<"s","m","o","k","e">>
Clear == <<"c","l","e","a","r">>

\* An advice text is a string whose characters are "-", " ", "\n", ... and
\* whole tip sentences. tips.map(t => `- ${t}`)
Bullet(t) == <<"-", " ", t>>

\* Array.prototype.join("\n")
RECURSIVE JoinLines(_)
JoinLines(ls) ==
  IF ls = <<>> THEN <<>>
  ELSE IF Len(ls) = 1 THEN ls[1]
  ELSE ls[1] \o <<"\n">> \o JoinLines(Tail(ls))

\* Array.prototype.slice(0, n)
Slice(s, n) == SubSeq(s, 1, IF Len(s) < n THEN Len(s) ELSE n)

\* the tips pushed, in the order of the pushes
RuleTips(current, forecast) ==
  LET t == Number(Field(current, "temp"))
      feels == Number(Field(current, "feels_like"))
      hum == Number(OrElse(Field(current, "humidity"), Num(0)))
      wind == Number(OrElse(Field(current, "wind_speed"), Num(0)))
      desc == toLowerCase(String(OrElse(Field(current, "description"), Str(<<>>))))
      pop == RoundTimes100(OrElse(FirstPop(forecast), Num(0)))
  IN (IF ~isNaN(t)
      THEN IF GE(t, Num(32)) \/ GE(feels, Num(34)) THEN <<HeatTip>>
           ELSE IF LE(t, Num(15)) THEN <<LayerTip>>
           ELSE <<PleasantTip>>
      ELSE <<>>)
     \o (IF GE(hum, Num(70)) THEN <<HumidityTip>> ELSE <<>>)
     \o (IF GE(wind, Num(8)) THEN <<WindTip>> ELSE <<>>)
     \o (IF includes(desc, Rain) \/ GE(pop, Num(40)) THEN <<UmbrellaTip>> ELSE <<>>)
     \o (IF includes(desc, Haze) \/ includes(desc, Smoke) THEN <<AirTip>> ELSE <<>>)
     \o (IF includes(desc, Clear) THEN <<ClearTip>> ELSE <<>>)

\* ruleBasedAdvice() with slice(-4) for slice(0, 4): the last four tips kept
ruleBasedAdviceLastFour(current, forecast) ==
  LET tips == RuleTips(current, forecast)
      all == IF Len(tips) # 0 THEN tips ELSE <<BasicTip>>
      kept == SubSeq(all, IF Len(all) > 4 THEN Len(all) - 3 ELSE 1, Len(all))
  IN JoinLines([i \in 1..Len(kept) |-> Bullet(kept[i])])

\* ruleBasedAdvice(): the text returned; it throws when `current` is null.
ruleBasedAdvice(current, forecast) ==
  LET tips == RuleTips(current, forecast)
      kept == Slice(IF Len(tips) # 0 THEN tips ELSE <<BasicTip>>, 4)
  IN JoinLines([i \in 1..Len(kept) |-> Bullet(kept[i])])

\* ------------------------------------------------------------------------
\* The client's reading of an advice text
\* ------------------------------------------------------------------------
\* String.prototype.split(/\n+/)
RECURSIVE SplitLines(_)
SplitLines(s) ==
  LET nl == {i \in 1..Len(s) : s[i] = "\n"}
  IN IF nl = {} THEN <<s>>
     ELSE LET i == SetMin(nl)
              rest == {j \in (i + 1)..Len(s) : s[j] # "\n"}
              j == IF rest = {} THEN Len(s) + 1 ELSE SetMin(rest)
          IN <<SubSeq(s, 1, i - 1)>> \o SplitLines(SubSeq(s, j, Len(s)))

\* s.replace(/^[-•\d.\s]+/, "").trim()
InBulletClass(c) == c \in {"-", "."} \/ IsDigit(c) \/ IsSpace(c)
StripBullet(s) ==
  LET keep == {i \in 1..Len(s) : ~InBulletClass(s[i])}
  IN IF keep = {} THEN <<>> ELSE trim(SubSeq(s, SetMin(keep), Len(s)))

\* Array.prototype.filter(Boolean), of strings
RECURSIVE FilterNonEmpty(_)
FilterNonEmpty(ls) ==
  IF ls = <<>> THEN <<>>
  ELSE (IF ls[1] = <<>> THEN <<>> ELSE <<ls[1]>>) \o FilterNonEmpty(Tail(ls))

\* renderTips: the tips shown, one element each
renderTips(text) ==
  LET split == SplitLines(text)
      lines == FilterNonEmpty([i \in 1..Len(split) |-> StripBullet(split[i])])
  IN IF Len(lines) # 0 THEN lines ELSE <<text>>

\* ------------------------------------------------------------------------
\* POST /api/ai-advice: the handler
\* ------------------------------------------------------------------------
\* const USE_MOCK_AI = process.env.USE_MOCK_AI === "true"
USE_MOCK_AI == env.USE_MOCK_AI = Str(<<"t","r","u","e">>)
\* const OPENAI_API_KEY = process.env.OPENAI_API_KEY
OPENAI_API_KEY == env.OPENAI_API_KEY

EnvValues ==
  [USE_MOCK_AI : {Undefined, Str(<<"t","r","u","e">>), Str(<<"1">>)},
   OPENAI_API_KEY : {Undefined, Str(<<"s","k">>)}]

AdvIdle ==
  [pc |-> "idle", body |-> NoBody, fetch |-> "none",
   data |-> [kind |-> "none", content |-> Undefined],
   status |-> 0, advice |-> <<>>, llmCalls |-> 0]

\* res.json({ advice }): express answers 200 unless a status was set
AdvRespond(a, text) ==
  [a EXCEPT !.pc = "done", !.status = 200, !.advice = text]

\* the catch block answering as the weather route's does: a 500 with an error
AdvCatchAsError(a) ==
  [a EXCEPT !.pc = "done", !.status = 500, !.advice = <<>>]

\* catch (e) { res.json({ advice: "- Weather looks manageable; ..." }) }
AdvCatch(a) == AdvRespond(a, Bullet(SafetyTip))

\* res.json({ advice: ruleBasedAdvice() }) inside the try
AdvRuleBased(a) ==
  LET current == DestructureCurrent(a.body)
      forecast == DestructureForecast(a.body)
  IN IF ReadThrows(current) THEN AdvCatch(a)
     ELSE AdvRespond(a, ruleBasedAdvice(current, forecast))

\* Building the prompt reads current.temp and calls forecast.map(f => f.day ...)
PromptThrows(current, forecast) ==
  \/ ReadThrows(current)
  \/ forecast.kind # "array"
  \/ \E i \in 1..Len(forecast.items) : forecast.items[i].kind = "null"

\* the handler testing the credential alone: with a credential the call is
\* made, whatever USE_MOCK_AI says
AdviceRequestKeyOnly(b) ==
  /\ adv.pc = "idle"
  /\ LET a == [adv EXCEPT !.body = b]
     IN adv' =
          IF ~Truthy(OPENAI_API_KEY) THEN AdvRuleBased(a)
          ELSE IF PromptThrows(DestructureCurrent(b), DestructureForecast(b))
               THEN AdvCatch(a)
          ELSE [a EXCEPT !.pc = "fetch", !.llmCalls = @ + 1]
  /\ UNCHANGED <<now, cache, req, env, fcIn, fcOut, ruleIn, ruleOut,
               look, elStatus, run>>

\* The handler up to its first await.
AdviceRequest(b) ==
  /\ adv.pc = "idle"
  /\ LET a == [adv EXCEPT !.body = b]
     IN adv' =
          IF USE_MOCK_AI THEN AdvRuleBased(a)
          ELSE IF ~Truthy(OPENAI_API_KEY) THEN AdvRuleBased(a)
          ELSE IF PromptThrows(DestructureCurrent(b), DestructureForecast(b))
               THEN AdvCatch(a)
          ELSE [a EXCEPT !.pc = "fetch", !.llmCalls = @ + 1]
  /\ UNCHANGED <<now, cache, req, env, fcIn, fcOut, ruleIn, ruleOut,
               look, elStatus, run>>

\* await fetch(".../chat/completions"): resolves ok, resolves not ok, rejects
AdviceFetchSettles(outcome) ==
  /\ adv.pc = "fetch"
  /\ LET a == [adv EXCEPT !.fetch = outcome]
     IN adv' = CASE outcome = "ok" -> [a EXCEPT !.pc = "json"]
                 [] outcome = "notok" -> [a EXCEPT !.pc = "text"]
                 [] OTHER -> AdvCatch(a)
  /\ UNCHANGED <<now, cache, req, env, fcIn, fcOut, ruleIn, ruleOut,
               look, elStatus, run>>

\* await resp.text() of a non-ok answer, then the rule engine
AdviceTextSettles(resolved) ==
  /\ adv.pc = "text"
  /\ LET a == [adv EXCEPT !.data.kind = IF resolved THEN "text" ELSE "rejected"]
     IN adv' = IF resolved THEN AdvRuleBased(a) ELSE AdvCatch(a)
  /\ UNCHANGED <<now, cache, req, env, fcIn, fcOut, ruleIn, ruleOut,
               look, elStatus, run>>

\* What resp.json() can give: a rejection (no JSON), null, an object without
\* choices, or choices[0].message.content of any type.
LineKinds == { <<>>, <<"tip">>, Bullet("tip") }
LinesUpTo(n) == UNION { [1..m -> LineKinds] : m \in 0..n }
LlmTexts == { JoinLines(ls) : ls \in LinesUpTo(MaxLines) }
LlmData ==
  { [kind |-> kd, content |-> Undefined] : kd \in {"rejected", "null", "nochoices"} }
  \cup { [kind |-> "content", content |-> c] : c \in {Undefined, JsNull, Num(7)} }
  \cup { [kind |-> "content", content |-> Str(t)] : t \in LlmTexts }

\* with `??` for `||`: only absent content falls back, an empty text is sent
AdviceJsonSettlesNullish(d) ==
  /\ adv.pc = "json"
  /\ LET a == [adv EXCEPT !.data = d]
     IN adv' =
          IF d.kind \in {"rejected", "null"} THEN AdvCatch(a)
          ELSE IF d.kind = "nochoices" \/ d.content.k \in {"undefined", "null"}
               THEN AdvRuleBased(a)
          ELSE IF d.content.k # "string" THEN AdvCatch(a)
          ELSE AdvRespond(a, trim(d.content.s))
  /\ UNCHANGED <<now, cache, req, env, fcIn, fcOut, ruleIn, ruleOut,
               look, elStatus, run>>

\* data.choices?.[0]?.message?.content?.trim() || ruleBasedAdvice()
AdviceJsonSettles(d) ==
  /\ adv.pc = "json"
  /\ LET a == [adv EXCEPT !.data = d]
     IN adv' =
          IF d.kind \in {"rejected", "null"} THEN AdvCatch(a)
          ELSE IF d.kind = "nochoices" \/ d.content.k \in {"undefined", "null"}
               THEN AdvRuleBased(a)
          ELSE IF d.content.k # "string" THEN AdvCatch(a)
          ELSE IF trim(d.content.s) # <<>> THEN AdvRespond(a, trim(d.content.s))
          ELSE AdvRuleBased(a)
  /\ UNCHANGED <<now, cache, req, env, fcIn, fcOut, ruleIn, ruleOut,
               look, elStatus, run>>

\* ------------------------------------------------------------------------
\* GET /api/weather: the cache
\* ------------------------------------------------------------------------
\* const cacheTTLms = 5 * 60 * 1000
cacheTTLms == 5 * 60 * 1000

\* getCache without the age test: whatever is stored is returned
getCacheNoExpiry(key) ==
  IF key \notin DOMAIN cache
  THEN [hit |-> FALSE, data |-> JsNull, cache |-> cache]
  ELSE [hit |-> TRUE, data |-> cache[key].data, cache |-> cache]

\* getCache with a hit renewing the entry's timestamp (a sliding TTL)
getCacheTouch(key) ==
  IF key \notin DOMAIN cache
  THEN [hit |-> FALSE, data |-> JsNull, cache |-> cache]
  ELSE IF now - cache[key].ts > cacheTTLms
       THEN [hit |-> FALSE, data |-> JsNull,
             cache |-> [k \in DOMAIN cache \ {key} |-> cache[k]]]
       ELSE [hit |-> TRUE, data |-> cache[key].data,
             cache |-> [cache EXCEPT ![key].ts = now]]

\* getCache(key): what it returns (hit, data) and the Map it leaves
getCache(key) ==
  IF key \notin DOMAIN cache
  THEN [hit |-> FALSE, data |-> JsNull, cache |-> cache]
  ELSE IF now - cache[key].ts > cacheTTLms
       THEN [hit |-> FALSE, data |-> JsNull,
             cache |-> [k \in DOMAIN cache \ {key} |-> cache[k]]]
       ELSE [hit |-> TRUE, data |-> cache[key].data, cache |-> cache]

\* setCache(key, data): the Map after cache.set(key, { data, ts: Date.now() })
setCache(c, key, data) ==
  [k \in DOMAIN c \cup {key} |->
     IF k = key THEN [data |-> data, ts |-> now] ELSE c[k]]

\* ------------------------------------------------------------------------
\* GET /api/weather: the upstream services
\* ------------------------------------------------------------------------
\* The calendar dates upstream sends, in chronological order.
Dates == <<"2024-06-01", "2024-06-02", "2024-06-03", "2024-06-04",
           "2024-06-05", "2024-06-06">>

\* A forecast entry's dt_txt is the string "<date> <time>", with the date and
\* the time one character each.
DtTxt(d) == Str(<<Dates[d], " ", "12:00:00">>)
FcItem(d, i) ==
  [dt_txt |-> IF d = 0 THEN Undefined ELSE DtTxt(d),
   temp |-> Num(i), pop |-> Milli(100 * i), description |-> Str(<<"c","l","o","u","d","s">>)]

\* The list whose i-th entry is dated ds[i] (0: no dt_txt) and reads i.
FcList(ds) == [i \in 1..Len(ds) |-> FcItem(ds[i], i)]

\* The geocoding service: at most one match, found whatever the letter case.
RomeMatch == [lat |-> 41, lon |-> 12, name |-> "Rome", country |-> "IT",
              state |-> Str(<<"L","a","z","i","o">>)]
OsloMatch == [lat |-> 59, lon |-> 10, name |-> "Oslo", country |-> "NO",
              state |-> Undefined]
GeoMatches(city) ==
  CASE toLowerCase(city) = <<"r","o","m","e">> -> <<RomeMatch>>
    [] toLowerCase(city) = <<"o","s","l","o">> -> <<OsloMatch>>
    [] OTHER -> <<>>

NoMatch == [lat |-> 0, lon |-> 0, name |-> "", country |-> "", state |-> Undefined]

\* The current-conditions service at (lat, lon): its v-th reading, or a body
\* with none of the nested objects.
CurrentReading(lat, lon, v) ==
  [kind |-> "full", description |-> Str(<<"h","a","z","e">>),
   temp |-> Num(60 - lat + v), feels_like |-> Num(60 - lat), humidity |-> Num(lon * 5),
   wind_speed |-> Num(v), clouds |-> Num(lon), dt |-> 1717200000 + lat + v]
CurrentBare(lat, lon) ==
  [kind |-> "bare", description |-> Undefined, temp |-> Undefined,
   feels_like |-> Undefined, humidity |-> Undefined, wind_speed |-> Undefined,
   clouds |-> Undefined, dt |-> 1717200000 + lat]

\* The forecast service: a body without a list, or a list.
ForecastBody(ds) == [kind |-> "list", list |-> FcList(ds)]
ForecastNoList == [kind |-> "nolist", list |-> <<>>]

\* The forecast service at (lat, lon): the colder the further north.
ForecastAt(lat, lon, fbody) ==
  [kind |-> fbody.kind,
   list |-> [i \in 1..Len(fbody.list) |->
               [fbody.list[i] EXCEPT !.temp = Milli(@.n + 1000 * (60 - lat))]]]

\* ------------------------------------------------------------------------
\* GET /api/weather: normalization
\* ------------------------------------------------------------------------
\* item.dt_txt.split(" ")[0]
DayOf(dt_txt) ==
  LET sp == {i \in 1..Len(dt_txt.s) : dt_txt.s[i] = " "}
  IN IF sp = {} THEN dt_txt.s ELSE SubSeq(dt_txt.s, 1, SetMin(sp) - 1)

\* the reduce with a later entry of a day replacing the one kept for it
RECURSIVE ReduceDaysLastWins(_, _)
ReduceDaysLastWins(days, items) ==
  IF items = <<>> THEN days
  ELSE LET item == items[1]
           day == DayOf(item.dt_txt)
           entry == [day |-> day, temp |-> item.temp, pop |-> item.pop,
                     description |-> OrElse(item.description, Str(<<>>))]
       IN ReduceDaysLastWins(
            IF \E i \in 1..Len(days) : days[i].day = day
            THEN [i \in 1..Len(days) |-> IF days[i].day = day THEN entry ELSE days[i]]
            ELSE Append(days, entry),
            Tail(items))

\* forecast.list.reduce((days, item) => { ... }, [])
RECURSIVE ReduceDays(_, _)
ReduceDays(days, items) ==
  IF items = <<>> THEN days
  ELSE LET item == items[1]
           day == DayOf(item.dt_txt)
       IN ReduceDays(
            IF \E i \in 1..Len(days) : days[i].day = day THEN days
            ELSE Append(days, [day |-> day, temp |-> item.temp, pop |-> item.pop,
                               description |-> OrElse(item.description, Str(<<>>))]),
            Tail(items))

\* the normalization without its slice(0, 5)
NormalizeForecastUncapped(list) == ReduceDays(<<>>, list)

\* forecast.list.reduce(...).slice(0, 5)
NormalizeForecast(list) == Slice(ReduceDays(<<>>, list), 5)

\* reduce of an absent list and split of an absent dt_txt are TypeErrors
NormalizeThrows(fbody) ==
  \/ fbody.kind # "list"
  \/ \E i \in 1..Len(fbody.list) : fbody.list[i].dt_txt.k # "string"

\* const normalized = { location, current, forecast }
Normalized(geo, current, fbody) ==
  [location |-> [name |-> geo.name, state |-> OrElse(geo.state, Str(<<>>)),
                 country |-> geo.country, lat |-> geo.lat, lon |-> geo.lon],
   current |-> [description |-> OrElse(current.description, Str(<<>>)),
                temp |-> current.temp, feels_like |-> current.feels_like,
                humidity |-> current.humidity, wind_speed |-> current.wind_speed,
                clouds |-> current.clouds, dt |-> current.dt],
   forecast |-> NormalizeForecast(fbody.list)]

\* the payload of an invocation that has none
NoData == Normalized(NoMatch, CurrentBare(0, 0), ForecastBody(<<>>))

\* ------------------------------------------------------------------------
\* GET /api/weather: the handler
\* ------------------------------------------------------------------------
Reqs == 1..NumReq

\* One invocation: where it is suspended (pc), its locals, the two fetches of
\* Promise.all (cur, fc), how fcResp.json() settled (fcJson) and the body it
\* gave (forecast), what it answered, and what it has asked of upstream.
\* For the record: when it arrived (at), whether its lookup evicted a stale
\* entry, and how geocoding ended (failed, empty, match).
ReqIdle ==
  [pc |-> "idle", query |-> Undefined, city |-> <<>>, cacheKey |-> <<>>, at |-> 0,
   geo |-> NoMatch, cur |-> "none", fc |-> "none", current |-> CurrentBare(0, 0),
   fcJson |-> "none", forecast |-> ForecastBody(<<>>),
   status |-> 0, error |-> "", data |-> NoData, fromCache |-> FALSE,
   evicted |-> FALSE, geoResult |-> "none",
   geoCalls |-> 0, curCalls |-> 0, fcCalls |-> 0]

\* res.status(code).json({ error })
Respond(q, code, msg) == [q EXCEPT !.pc = "done", !.status = code, !.error = msg]

\* res.json(payload)
RespondData(q, payload, cached) ==
  [q EXCEPT !.pc = "done", !.status = 200, !.data = payload, !.fromCache = cached]

\* catch (e) { res.status(500).json({ error: "Server error fetching weather" }) }
Catch(q) == Respond(q, 500, "Server error fetching weather")

\* the city without the trim()
CityOfUntrimmed(query) == OrElse(query, Str(<<>>)).s

\* (req.query.city || "").trim()
CityOf(query) == trim(OrElse(query, Str(<<>>)).s)

\* `wx:${city.toLowerCase()}`
CacheKey(city) == <<"w", "x", ":">> \o toLowerCase(city)

\* The handler up to its first await: validation, the cache lookup, and on a
\* miss the geocoding fetch. Invocations are numbered in order of arrival.
WeatherRequest(r, query) ==
  /\ req[r].pc = "idle"
  /\ \A p \in 1..(r - 1) : req[p].pc # "idle"
  /\ LET city == CityOf(query)
         got == getCache(CacheKey(city))
         q == [req[r] EXCEPT !.query = query, !.city = city, !.at = now,
                             !.evicted = (city # <<>> /\ got.cache # cache)]
     IN IF city = <<>>
        THEN /\ req' = [req EXCEPT ![r] = Respond(q, 400, "city is required")]
             /\ cache' = cache
        ELSE /\ cache' = got.cache
             /\ req' = [req EXCEPT ![r] =
                  IF got.hit
                  THEN RespondData([q EXCEPT !.cacheKey = CacheKey(city)], got.data, TRUE)
                  ELSE [q EXCEPT !.cacheKey = CacheKey(city), !.pc = "geo_fetch",
                                 !.geoCalls = @ + 1]]
  /\ UNCHANGED <<now, adv, env, fcIn, fcOut, ruleIn, ruleOut,
               look, elStatus, run>>

\* await fetch(geoUrl); if (!geoResp.ok) throw
GeoFetchSettles(r, outcome) ==
  /\ req[r].pc = "geo_fetch"
  /\ req' = [req EXCEPT ![r] =
       IF outcome = "ok" THEN [@ EXCEPT !.pc = "geo_json"]
       ELSE Catch([@ EXCEPT !.geoResult = "failed"])]
  /\ UNCHANGED <<now, cache, adv, env, fcIn, fcOut, ruleIn, ruleOut,
               look, elStatus, run>>

\* only the current-conditions fetch issued, the forecast fetch left for later
IssueCurrentFetchOnly(q, match) ==
  [q EXCEPT !.geo = match, !.pc = "wx_fetch", !.cur = "pending",
            !.curCalls = @ + 1]

\* Promise.all([fetch(currentUrl), fetch(forecastUrl)]): both are issued here
IssueWeatherFetches(q, match) ==
  [q EXCEPT !.geo = match, !.pc = "wx_fetch", !.cur = "pending", !.fc = "pending",
            !.curCalls = @ + 1, !.fcCalls = @ + 1]

\* with the "not found" answer stored as well: an empty payload under the key
GeoJsonSettlesCachesMiss(r, resolved) ==
  /\ req[r].pc = "geo_json"
  /\ LET geo == GeoMatches(req[r].city)
     IN /\ req' = [req EXCEPT ![r] =
             IF ~resolved THEN Catch([@ EXCEPT !.geoResult = "failed"])
             ELSE IF Len(geo) = 0
                  THEN Respond([@ EXCEPT !.geoResult = "empty"], 404, "City not found")
             ELSE IssueWeatherFetches([@ EXCEPT !.geoResult = "match"], geo[1])]
        /\ cache' = IF resolved /\ Len(geo) = 0
                    THEN setCache(cache, req[r].cacheKey, NoData) ELSE cache
  /\ UNCHANGED <<now, adv, env, fcIn, fcOut, ruleIn, ruleOut,
                 look, elStatus, run>>

\* with `if (!geo)` for `if (!geo?.length)`: an empty list passes the test and
\* the destructuring of geo[0] throws
GeoJsonSettlesNoLength(r, resolved) ==
  /\ req[r].pc = "geo_json"
  /\ LET geo == GeoMatches(req[r].city)
     IN req' = [req EXCEPT ![r] =
          IF ~resolved THEN Catch([@ EXCEPT !.geoResult = "failed"])
          ELSE IF Len(geo) = 0 THEN Catch([@ EXCEPT !.geoResult = "empty"])
          ELSE IssueWeatherFetches([@ EXCEPT !.geoResult = "match"], geo[1])]
  /\ UNCHANGED <<now, cache, adv, env, fcIn, fcOut, ruleIn, ruleOut,
               look, elStatus, run>>

\* await geoResp.json(); if (!geo?.length) 404; else the two weather fetches
GeoJsonSettles(r, resolved) ==
  /\ req[r].pc = "geo_json"
  /\ LET geo == GeoMatches(req[r].city)
     IN req' = [req EXCEPT ![r] =
          IF ~resolved THEN Catch([@ EXCEPT !.geoResult = "failed"])
          ELSE IF Len(geo) = 0
               THEN Respond([@ EXCEPT !.geoResult = "empty"], 404, "City not found")
          ELSE IssueWeatherFetches([@ EXCEPT !.geoResult = "match"], geo[1])]
  /\ UNCHANGED <<now, cache, adv, env, fcIn, fcOut, ruleIn, ruleOut,
               look, elStatus, run>>

\* One of the two fetches settles (whether or not the handler still waits:
\* nothing cancels the other when one rejects).
CurFetchSettles(r, outcome) ==
  /\ req[r].cur = "pending"
  /\ req' = [req EXCEPT ![r].cur = outcome]
  /\ UNCHANGED <<now, cache, adv, env, fcIn, fcOut, ruleIn, ruleOut,
               look, elStatus, run>>

FcFetchSettles(r, outcome) ==
  /\ req[r].fc = "pending"
  /\ req' = [req EXCEPT ![r].fc = outcome]
  /\ UNCHANGED <<now, cache, adv, env, fcIn, fcOut, ruleIn, ruleOut,
               look, elStatus, run>>

\* Promise.all settles: rejected as soon as one fetch rejects, fulfilled when
\* both have resolved
AllSettled(q) ==
  \/ q.cur = "rejected" \/ q.fc = "rejected"
  \/ (q.cur \in {"ok", "notok"} /\ q.fc \in {"ok", "notok"})

\* the handler resumes from await Promise.all(...);
\* if (!curResp.ok || !fcResp.ok) throw
WeatherJoin(r) ==
  /\ req[r].pc = "wx_fetch"
  /\ AllSettled(req[r])
  /\ req' = [req EXCEPT ![r] =
       IF @.cur = "ok" /\ @.fc = "ok" THEN [@ EXCEPT !.pc = "cur_json"] ELSE Catch(@)]
  /\ UNCHANGED <<now, cache, adv, env, fcIn, fcOut, ruleIn, ruleOut,
               look, elStatus, run>>

\* what curResp.json() can resolve to for the coordinates asked
CurrentBodies(geo) ==
  { CurrentReading(geo.lat, geo.lon, v) : v \in 1..MaxVersion }
  \cup { CurrentBare(geo.lat, geo.lon) }

\* const current = await curResp.json()
CurJsonSettles(r, resolved, body) ==
  /\ req[r].pc = "cur_json"
  /\ body \in CurrentBodies(req[r].geo)
  /\ req' = [req EXCEPT ![r] =
       IF resolved THEN [@ EXCEPT !.pc = "fc_json", !.current = body] ELSE Catch(@)]
  /\ UNCHANGED <<now, cache, adv, env, fcIn, fcOut, ruleIn, ruleOut,
               look, elStatus, run>>

\* what fcResp.json() can resolve to
ForecastBodies ==
  { ForecastNoList, ForecastBody(<<1, 1, 2>>), ForecastBody(<<2, 0>>) }
\* ... for the coordinates asked
ForecastBodiesAt(geo) == { ForecastAt(geo.lat, geo.lon, b) : b \in ForecastBodies }

\* with cacheKey one variable shared by the invocations (a missing `const`):
\* the payload is stored under the key of the request that arrived last
FcJsonSettlesSharedKey(r, resolved, fbody) ==
  /\ req[r].pc = "fc_json"
  /\ fbody \in ForecastBodiesAt(req[r].geo)
  /\ IF ~resolved
     THEN /\ cache' = cache
          /\ req' = [req EXCEPT ![r] = Catch([@ EXCEPT !.fcJson = "rejected"])]
     ELSE LET q == [req[r] EXCEPT !.fcJson = "resolved", !.forecast = fbody]
              last == SetMax({ p \in Reqs : req[p].cacheKey # <<>> })
          IN IF NormalizeThrows(fbody)
             THEN /\ cache' = cache
                  /\ req' = [req EXCEPT ![r] = Catch(q)]
             ELSE LET normalized == Normalized(q.geo, q.current, fbody)
                  IN /\ cache' = setCache(cache, req[last].cacheKey, normalized)
                     /\ req' = [req EXCEPT ![r] = RespondData(q, normalized, FALSE)]
  /\ UNCHANGED <<now, adv, env, fcIn, fcOut, ruleIn, ruleOut,
                 look, elStatus, run>>

\* const forecast = await fcResp.json(); normalize; setCache; res.json
FcJsonSettles(r, resolved, fbody) ==
  /\ req[r].pc = "fc_json"
  /\ fbody \in ForecastBodiesAt(req[r].geo)
  /\ IF ~resolved
     THEN /\ cache' = cache
          /\ req' = [req EXCEPT ![r] = Catch([@ EXCEPT !.fcJson = "rejected"])]
     ELSE LET q == [req[r] EXCEPT !.fcJson = "resolved", !.forecast = fbody]
          IN IF NormalizeThrows(fbody)
             THEN /\ cache' = cache
                  /\ req' = [req EXCEPT ![r] = Catch(q)]
             ELSE LET normalized == Normalized(q.geo, q.current, fbody)
                  IN /\ cache' = setCache(cache, q.cacheKey, normalized)
                     /\ req' = [req EXCEPT ![r] = RespondData(q, normalized, FALSE)]
  /\ UNCHANGED <<now, adv, env, fcIn, fcOut, ruleIn, ruleOut,
               look, elStatus, run>>

\* Time passes: by a millisecond or by the TTL. The advances taken so far
\* can be read off the clock.
TickSteps == {1, cacheTTLms}
Ticks == (now \div cacheTTLms) + (now % cacheTTLms)
Tick(d) ==
  /\ Ticks < MaxTicks
  /\ now' = now + d
  /\ UNCHANGED <<cache, req, adv, env, fcIn, fcOut, ruleIn, ruleOut,
               look, elStatus, run>>

\* ------------------------------------------------------------------------
\* The two pure computations on their own
\* ------------------------------------------------------------------------
\* Upstream forecast bodies: every list of at most MaxList dated entries, the
\* short lists with an entry that has no dt_txt, and a body with no list.
IsNormInput(fbody) ==
  \/ \E m \in 0..MaxList : \E ds \in [1..m -> DOMAIN Dates] : fbody = ForecastBody(ds)
  \/ \E m \in 1..2 : \E ds \in [1..m -> 0..1] : fbody = ForecastBody(ds)
  \/ fbody = ForecastNoList

NormNone == [done |-> FALSE, threw |-> FALSE, forecast |-> <<>>]

NormalizeStep ==
  /\ ~fcOut.done
  /\ fcOut' = IF NormalizeThrows(fcIn)
              THEN [done |-> TRUE, threw |-> TRUE, forecast |-> <<>>]
              ELSE [done |-> TRUE, threw |-> FALSE,
                    forecast |-> NormalizeForecast(fcIn.list)]
  /\ UNCHANGED <<now, cache, req, adv, env, fcIn, ruleIn, ruleOut,
               look, elStatus, run>>

\* The cache on its own: getCache and setCache called in any order, for two
\* keys and two payloads, as time passes. look is the last call: the key, what
\* a getCache returned and whether it evicted, and how many hits in a row the
\* key has had since it was stored.
CacheKeys == { CacheKey(<<"r","o","m","e">>), CacheKey(<<"o","s","l","o">>) }
CachePayloads ==
  { Normalized(RomeMatch, CurrentReading(41, 12, 1),
               ForecastAt(41, 12, ForecastBody(<<1, 1, 2>>))),
    Normalized(OsloMatch, CurrentBare(59, 10), ForecastAt(59, 10, ForecastBody(<<2>>))) }

LookNone ==
  [op |-> "none", key |-> <<>>, hit |-> FALSE, data |-> NoData, evicted |-> FALSE,
   reads |-> 0]

CacheLookup(key) ==
  LET got == getCache(key)
      before == IF look.key = key THEN look.reads ELSE 0
  IN /\ cache' = got.cache
     /\ look' = [op |-> "get", key |-> key, hit |-> got.hit,
                 data |-> IF got.hit THEN got.data ELSE NoData,
                 evicted |-> (got.cache # cache),
                 reads |-> IF got.hit /\ before < MaxReads THEN before + 1 ELSE before]
     /\ UNCHANGED <<now, req, adv, env, fcIn, fcOut, ruleIn, ruleOut, elStatus, run>>

CacheStore(key, data) ==
  /\ cache' = setCache(cache, key, data)
  /\ look' = [op |-> "set", key |-> key, hit |-> FALSE, data |-> data,
              evicted |-> FALSE, reads |-> 0]
  /\ UNCHANGED <<now, req, adv, env, fcIn, fcOut, ruleIn, ruleOut, elStatus, run>>

\* ------------------------------------------------------------------------
\* The client: run()
\* ------------------------------------------------------------------------
\* What JSON.stringify followed by JSON.parse makes of a property: NaN comes
\* back null; an undefined property is left out, and reads undefined again.
JsonScalar(v) == IF v.k = "NaN" THEN JsNull ELSE v

\* A weather payload through JSON: res.json(normalized) as the client reads
\* it, JSON.stringify(wx) as the server reads it.
Json(w) ==
  [location |-> [w.location EXCEPT !.state = JsonScalar(@)],
   current |-> [w.current EXCEPT !.description = JsonScalar(@),
                                 !.temp = JsonScalar(@),
                                 !.feels_like = JsonScalar(@),
                                 !.humidity = JsonScalar(@),
                                 !.wind_speed = JsonScalar(@),
                                 !.clouds = JsonScalar(@)],
   forecast |-> [i \in 1..Len(w.forecast) |->
                   [w.forecast[i] EXCEPT !.temp = JsonScalar(@),
                                         !.pop = JsonScalar(@),
                                         !.description = JsonScalar(@)]]]

\* The statuses shown (the source writes the ellipsis as one character).
PleaseEnter == <<"Please enter a city.">>
Loading == <<"Loading...">>
Generating == <<"Generating tips...">>
Done == <<"Done.">>
Failed(message) == <<"Failed: ", message>>

\* e.message of what fetch, json() and renderTips throw
FetchError == "Failed to fetch"
JsonError == "Unexpected token < in JSON"
SplitError == "Cannot read properties of undefined (reading 'split')"

Runs == 1..NumRuns

\* One invocation of run(): where it is suspended (pc), elCity.value when it
\* started, city, how the two requests went, the payload received (wx), the
\* body sent with the advice request, the requests issued, and the status it
\* set last.
RunIdle ==
  [pc |-> "idle", value |-> <<>>, city |-> <<>>,
   wxFetch |-> "none", wxJson |-> "none", wx |-> NoData,
   aiFetch |-> "none", aiJson |-> "none", aiBody |-> NoData,
   wxCalls |-> 0, aiCalls |-> 0, last |-> <<>>]

ClientIdle == elStatus = <<>> /\ run = [i \in Runs |-> RunIdle]

\* setStatus(msg), by invocation i now in state r
SetStatus(i, r, msg) ==
  /\ elStatus' = msg
  /\ run' = [run EXCEPT ![i] = [r EXCEPT !.last = msg]]

\* catch (e) { setStatus("Failed: " + e.message) }
ClientCatch(i, r, message) ==
  SetStatus(i, [r EXCEPT !.pc = "done"], Failed(message))

\* What elCity.value is when run() starts.
CityValues == { <<>>, <<" ", " ">>, <<" ","O","s","l","o"," ">> }

\* run() up to its first await. Invocations are numbered in order of start.
ClientRun(i, value) ==
  /\ run[i].pc = "idle"
  /\ \A p \in 1..(i - 1) : run[p].pc # "idle"
  /\ LET city == trim(value)
         r == [run[i] EXCEPT !.value = value, !.city = city]
     IN IF city = <<>>
        THEN SetStatus(i, [r EXCEPT !.pc = "done"], PleaseEnter)
        ELSE SetStatus(i, [r EXCEPT !.pc = "wx_fetch", !.wxCalls = @ + 1], Loading)
  /\ UNCHANGED <<now, cache, req, adv, env, fcIn, fcOut, ruleIn, ruleOut, look>>

\* const wxRes = await fetch(`/api/weather?city=...`)
ClientWxFetchSettles(i, outcome) ==
  /\ run[i].pc = "wx_fetch"
  /\ LET r == [run[i] EXCEPT !.wxFetch = outcome]
     IN IF outcome = "rejected" THEN ClientCatch(i, r, FetchError)
        ELSE /\ run' = [run EXCEPT ![i] = [r EXCEPT !.pc = "wx_json"]]
             /\ elStatus' = elStatus
  /\ UNCHANGED <<now, cache, req, adv, env, fcIn, fcOut, ruleIn, ruleOut, look>>

\* What the weather route answers: with 200 a payload, as JSON; otherwise an
\* error object, with or without a message.
WxPayloads == { Json(w) : w \in CachePayloads }
WxErrors ==
  { Undefined, Str(<<"City not found">>), Str(<<"Server error fetching weather">>) }

\* with the test of wxRes.ok left out: a failed answer is rendered and sent on
ClientWxJsonSettlesNoOkTest(i, resolved, payload, error) ==
  /\ run[i].pc = "wx_json"
  /\ IF ~resolved
     THEN ClientCatch(i, [run[i] EXCEPT !.wxJson = "rejected"], JsonError)
     ELSE SetStatus(i, [run[i] EXCEPT !.wxJson = "resolved", !.wx = payload,
                                      !.pc = "ai_fetch", !.aiCalls = @ + 1,
                                      !.aiBody = Json(payload)],
                    Generating)
  /\ UNCHANGED <<now, cache, req, adv, env, fcIn, fcOut, ruleIn, ruleOut, look>>

\* const wx = await wxRes.json(); if (!wxRes.ok) throw ...; renderWeather(wx);
\* setStatus("Generating tips..."); fetch(`/api/ai-advice`, { body:
\* JSON.stringify(wx) }). renderWeather reads wx.location, wx.current and
\* wx.forecast, which every payload of the weather route has.
ClientWxJsonSettles(i, resolved, payload, error) ==
  /\ run[i].pc = "wx_json"
  /\ IF ~resolved
     THEN ClientCatch(i, [run[i] EXCEPT !.wxJson = "rejected"], JsonError)
     ELSE IF run[i].wxFetch # "ok"
          THEN ClientCatch(i, [run[i] EXCEPT !.wxJson = "resolved"],
                           OrElse(error, Str(<<"Weather error">>)).s[1])
          ELSE SetStatus(i, [run[i] EXCEPT !.wxJson = "resolved", !.wx = payload,
                                           !.pc = "ai_fetch", !.aiCalls = @ + 1,
                                           !.aiBody = Json(payload)],
                         Generating)
  /\ UNCHANGED <<now, cache, req, adv, env, fcIn, fcOut, ruleIn, ruleOut, look>>

\* const aiRes = await fetch(`/api/ai-advice`, ...)
ClientAiFetchSettles(i, outcome) ==
  /\ run[i].pc = "ai_fetch"
  /\ LET r == [run[i] EXCEPT !.aiFetch = outcome]
     IN IF outcome = "rejected" THEN ClientCatch(i, r, FetchError)
        ELSE /\ run' = [run EXCEPT ![i] = [r EXCEPT !.pc = "ai_json"]]
             /\ elStatus' = elStatus
  /\ UNCHANGED <<now, cache, req, adv, env, fcIn, fcOut, ruleIn, ruleOut, look>>

\* What the advice answer holds: an advice text, an error message, or neither.
AiBodies ==
  { [advice |-> Str(Bullet(BasicTip)), error |-> Undefined],
    [advice |-> Undefined, error |-> Str(<<"Bad request">>)],
    [advice |-> Undefined, error |-> Undefined] }

\* const ai = await aiRes.json(); if (!aiRes.ok) throw ...;
\* renderTips(ai.advice); setStatus("Done."). text.split throws when the
\* advice is no string.
ClientAiJsonSettles(i, resolved, ai) ==
  /\ run[i].pc = "ai_json"
  /\ IF ~resolved
     THEN ClientCatch(i, [run[i] EXCEPT !.aiJson = "rejected"], JsonError)
     ELSE LET r == [run[i] EXCEPT !.aiJson = "resolved"]
          IN IF r.aiFetch # "ok"
             THEN ClientCatch(i, r, OrElse(ai.error, Str(<<"AI error">>)).s[1])
             ELSE IF ai.advice.k # "string" THEN ClientCatch(i, r, SplitError)
             ELSE SetStatus(i, [r EXCEPT !.pc = "done"], Done)
  /\ UNCHANGED <<now, cache, req, adv, env, fcIn, fcOut, ruleIn, ruleOut, look>>

\* Request bodies for the rule engine: every combination of the field values
\* around the thresholds, and the bodies without a usable `current`.
LightRain == <<"l","i","g","h","t"," ","r","a","i","n">>
TempValues == {Undefined, JsNull, Str(<<"n","/","a">>), Num(36), Num(32), Num(31),
               Num(16), Num(15)}
FeelsValues == {Undefined, Num(34), Num(33)}
HumidityValues == {Undefined, Num(69), Num(70), Num(80)}
WindValues == {Undefined, Num(7), Num(8), Num(10)}
DescriptionValues ==
  {Undefined, Str(LightRain), Str(<<"H","a","z","e">>), Str(<<"s","m","o","k","e">>),
   Str(<<"c","l","e","a","r"," ","s","k","y">>),
   Str(<<"R","A","I","N",","," ","h","a","z","e",","," ","c","l","e","a","r">>)}
PopValues == {Undefined, Milli(394), Milli(395), Milli(500)}

IsRuleBody(body) ==
  \/ \E t \in TempValues, f \in FeelsValues, h \in HumidityValues,
        w \in WindValues, d \in DescriptionValues, p \in PopValues :
        body = Body(CurrentObject(t, f, h, w, d), ForecastArray(<<ForecastItem(p)>>))
  \/ body \in { NoBody,
                 Body(CurrentOfKind("undefined"), ForecastOfKind("undefined")),
                 Body(CurrentOfKind("null"), ForecastArray(<<>>)),
                 Body(CurrentOfKind("string"), ForecastOfKind("null")),
                 Body(EmptyObject, ForecastOfKind("string")),
                 Body(EmptyObject, ForecastArray(<<NullItem>>)) }

RuleNone == [done |-> FALSE, threw |-> FALSE, text |-> <<>>]

RuleStep ==
  /\ ~ruleOut.done
  /\ LET current == DestructureCurrent(ruleIn)
         forecast == DestructureForecast(ruleIn)
     IN ruleOut' = IF ReadThrows(current)
                   THEN [done |-> TRUE, threw |-> TRUE, text |-> <<>>]
                   ELSE [done |-> TRUE, threw |-> FALSE,
                         text |-> ruleBasedAdvice(current, forecast)]
  /\ UNCHANGED <<now, cache, req, adv, env, fcIn, fcOut, ruleIn,
               look, elStatus, run>>

\* ------------------------------------------------------------------------
\* Specifications
\* ------------------------------------------------------------------------
\* The `city` query parameters sent: none, blank, and names in several cases.
Queries ==
  { Undefined, Str(<<" ", " ">>), Str(<<"R","o","m","e">>), Str(<<" ","r","o","m","e"," ">>),
    Str(<<"O","s","l","o">>), Str(<<"X","y">>) }

\* The advice request bodies sent to the handler.
AdviceBodies ==
  { NoBody,
    Body(CurrentOfKind("undefined"), ForecastOfKind("undefined")),
    Body(CurrentOfKind("null"), ForecastArray(<<>>)),
    Body(CurrentOfKind("string"), ForecastOfKind("null")),
    Body(EmptyObject, ForecastOfKind("string")),
    Body(EmptyObject, ForecastArray(<<NullItem>>)),
    Body(EmptyObject, ForecastArray(<<>>)),
    Body(CurrentObject(JsNull, Undefined, Undefined, Undefined, Undefined),
         ForecastArray(<<>>)),
    Body(CurrentObject(Num(36), Num(38), Num(80), Num(10), Str(LightRain)),
         ForecastArray(<<ForecastItem(Milli(500))>>)),
    Body(CurrentObject(Num(20), Num(20), Num(80), Num(10),
                       Str(<<"R","A","I","N",","," ","h","a","z","e",","," ","c","l","e","a","r">>)),
         ForecastArray(<<ForecastItem(Undefined)>>)) }

NoEnv == [USE_MOCK_AI |-> Undefined, OPENAI_API_KEY |-> Undefined]

WeatherIdle ==
  now = 0 /\ cache = <<>> /\ look = LookNone /\ req = [r \in Reqs |-> ReqIdle]
NormIdle == fcIn = ForecastNoList /\ fcOut = NormNone
RuleIdle == ruleIn = NoBody /\ ruleOut = RuleNone

WeatherNext ==
  \/ \E r \in Reqs, query \in Queries : WeatherRequest(r, query)
  \/ \E r \in Reqs, outcome \in {"ok", "notok", "rejected"} : GeoFetchSettles(r, outcome)
  \/ \E r \in Reqs, resolved \in BOOLEAN : GeoJsonSettles(r, resolved)
  \/ \E r \in Reqs, outcome \in {"ok", "notok", "rejected"} : CurFetchSettles(r, outcome)
  \/ \E r \in Reqs, outcome \in {"ok", "notok", "rejected"} : FcFetchSettles(r, outcome)
  \/ \E r \in Reqs : WeatherJoin(r)
  \/ \E r \in Reqs, resolved \in BOOLEAN :
       \E body \in CurrentBodies(req[r].geo) : CurJsonSettles(r, resolved, body)
  \/ \E r \in Reqs, resolved \in BOOLEAN :
       \E fbody \in ForecastBodiesAt(req[r].geo) : FcJsonSettles(r, resolved, fbody)
  \/ \E d \in TickSteps : Tick(d)

AdviceNext ==
  \/ \E b \in AdviceBodies : AdviceRequest(b)
  \/ \E outcome \in {"ok", "notok", "rejected"} : AdviceFetchSettles(outcome)
  \/ \E resolved \in BOOLEAN : AdviceTextSettles(resolved)
  \/ adv.pc = "json" /\ \E d \in LlmData : AdviceJsonSettles(d)

\* The server: both routes.
Init == WeatherIdle /\ ClientIdle /\ adv = AdvIdle /\ env \in EnvValues /\ NormIdle /\ RuleIdle
Next == WeatherNext \/ AdviceNext
Spec == Init /\ [][Next]_vars

\* The weather route alone (it reads nothing of the environment modelled).
WeatherInit == WeatherIdle /\ ClientIdle /\ adv = AdvIdle /\ env = NoEnv /\ NormIdle /\ RuleIdle
WeatherSpec == WeatherInit /\ [][WeatherNext]_vars

\* The advice route alone.
AdviceSpec == Init /\ [][AdviceNext]_vars

\* The cache alone.
CacheNext ==
  \/ \E key \in CacheKeys : CacheLookup(key)
  \/ \E key \in CacheKeys, data \in CachePayloads : CacheStore(key, data)
  \/ \E d \in TickSteps : Tick(d)
CacheSpec == WeatherInit /\ [][CacheNext]_vars

\* The client alone, with every answer the server may give it.
ClientNext ==
  \/ \E i \in Runs, value \in CityValues : ClientRun(i, value)
  \/ \E i \in Runs, outcome \in {"ok", "notok", "rejected"} :
       ClientWxFetchSettles(i, outcome)
  \/ \E i \in Runs, resolved \in BOOLEAN, payload \in WxPayloads, error \in WxErrors :
       ClientWxJsonSettles(i, resolved, payload, error)
  \/ \E i \in Runs, outcome \in {"ok", "notok", "rejected"} :
       ClientAiFetchSettles(i, outcome)
  \/ \E i \in Runs, resolved \in BOOLEAN, ai \in AiBodies :
       ClientAiJsonSettles(i, resolved, ai)
ClientSpec == WeatherInit /\ [][ClientNext]_vars

\* Forecast normalization applied to each upstream body.
NormInit ==
  WeatherIdle /\ ClientIdle /\ adv = AdvIdle /\ env = NoEnv /\ RuleIdle
  /\ IsNormInput(fcIn) /\ fcOut = NormNone
NormSpec == NormInit /\ [][NormalizeStep]_vars

\* The rule engine applied to each request body.
RuleInit ==
  WeatherIdle /\ ClientIdle /\ adv = AdvIdle /\ env = NoEnv /\ NormIdle
  /\ IsRuleBody(ruleIn) /\ ruleOut = RuleNone
RuleSpec == RuleInit /\ [][RuleStep]_vars

\* ------------------------------------------------------------------------
\* The rule engine: claims C8 and C9 (under RuleSpec)
\* ------------------------------------------------------------------------
\* The conditions of the decision table, read off the request body.
RuleCurrent == DestructureCurrent(ruleIn)
RuleTemp == Number(Field(RuleCurrent, "temp"))
RuleDesc ==
  toLowerCase(String(OrElse(Field(RuleCurrent, "description"), Str(<<>>))))
RuleConds ==
  << ~isNaN(RuleTemp),
     GE(Number(OrElse(Field(RuleCurrent, "humidity"), Num(0))), Num(70)),
     GE(Number(OrElse(Field(RuleCurrent, "wind_speed"), Num(0))), Num(8)),
     includes(RuleDesc, Rain)
       \/ GE(RoundTimes100(OrElse(FirstPop(DestructureForecast(ruleIn)), Num(0))), Num(40)),
     includes(RuleDesc, Haze) \/ includes(RuleDesc, Smoke),
     includes(RuleDesc, Clear) >>
RulePriority ==
  << IF GE(RuleTemp, Num(32)) \/ GE(Number(Field(RuleCurrent, "feels_like")), Num(34))
       THEN HeatTip
       ELSE IF LE(RuleTemp, Num(15)) THEN LayerTip ELSE PleasantTip,
     HumidityTip, WindTip, UmbrellaTip, AirTip, ClearTip >>
RuleShown == renderTips(ruleOut.text)

\* The body of the spec's example: temp 36, humidity 80, wind_speed 10,
\* "light rain", forecast[0].pop 0.5
IsRuleExample ==
  /\ ruleIn.kind = "object" /\ ruleIn.current.kind = "object"
  /\ ruleIn.current.temp = Num(36) /\ ruleIn.current.humidity = Num(80)
  /\ ruleIn.current.wind_speed = Num(10)
  /\ ruleIn.current.description = Str(LightRain)
  /\ FirstPop(ruleIn.forecast) = Milli(500)

\* C8: when some condition of the table holds, the tips returned are exactly
\* those whose condition holds and that have fewer than 4 holding conditions
\* before them in the priority order temperature, humidity, wind, umbrella,
\* air quality, clear skies; they come in that order; and the example body
\* gives heat, humidity, wind, umbrella.
C8_RuleOrderAndCap ==
  (ruleOut.done /\ ~ruleOut.threw) =>
    LET shown == RuleShown
        conds == RuleConds
        prio == RulePriority
        rank == [i \in 1..Len(shown) |-> CHOOSE k \in 1..6 : shown[i] = <<prio[k]>>]
    IN /\ (\E k \in 1..6 : conds[k]) =>
            /\ \A k \in 1..6 :
                 (\E i \in 1..Len(shown) : shown[i] = <<prio[k]>>)
                   <=> (conds[k] /\ Cardinality({j \in 1..(k - 1) : conds[j]}) < 4)
            /\ \A i \in 1..Len(shown) : \E k \in 1..6 : shown[i] = <<prio[k]>>
            /\ \A i, j \in 1..Len(shown) : i < j => rank[i] < rank[j]
            /\ ruleOut.text = JoinLines([i \in 1..Len(shown) |-> Bullet(shown[i][1])])
       /\ IsRuleExample =>
            shown = << <<HeatTip>>, <<HumidityTip>>, <<WindTip>>, <<UmbrellaTip>> >>

\* C8's case: all six conditions hold and four tips are returned.
C8_Witness ==
  /\ ruleOut.done /\ ~ruleOut.threw
  /\ \A k \in 1..6 : RuleConds[k]
  /\ Len(RuleShown) = 4

\* C9 as stated: with current.temp NaN or missing (absent, null, or a string
\* that is no number) and no other condition of the table holding, the rule
\* engine returns exactly the one "basic precautions" tip.
RuleTempMissing ==
  LET v == Field(RuleCurrent, "temp")
  IN v.k \in {"undefined", "null", "NaN"} \/ (v.k = "string" /\ isNaN(Number(v)))
C9_DefaultTip ==
  (ruleOut.done /\ ~ruleOut.threw /\ RuleTempMissing
     /\ \A k \in 2..6 : ~RuleConds[k])
    => RuleShown = << <<BasicTip>> >>

\* ------------------------------------------------------------------------
\* The advice route: claims C4 and C10 (under AdviceSpec)
\* ------------------------------------------------------------------------
\* Something was thrown in the handler: a read of a null `current`, a prompt
\* built from a forecast that is no array of objects, a rejected fetch, a
\* body that could not be read, or content that has no trim().
AdvBodyMalformed ==
  \/ ReadThrows(DestructureCurrent(adv.body))
  \/ /\ adv.llmCalls = 0 /\ ~USE_MOCK_AI /\ Truthy(OPENAI_API_KEY)
     /\ PromptThrows(DestructureCurrent(adv.body), DestructureForecast(adv.body))
AdvCallFailed ==
  \/ adv.fetch = "rejected"
  \/ adv.data.kind \in {"rejected", "null"}
  \/ (adv.data.kind = "content" /\ adv.data.content.k = "number")

\* C4: the advice route answers nothing but 200, whatever the body and
\* whatever the text-generation call does; the advice of an answer is never
\* empty; and when something was thrown in the handler the advice is the one
\* generic safety tip.
C4_AdviceAlways200 ==
  /\ adv.status \in {0, 200}
  /\ adv.pc = "done" =>
       /\ adv.status = 200
       /\ adv.advice # <<>> /\ trim(adv.advice) # <<>>
       /\ (AdvBodyMalformed \/ AdvCallFailed) => adv.advice = Bullet(SafetyTip)

\* C4's case: a body whose `current` is null has been answered.
C4_Witness ==
  /\ adv.pc = "done" /\ adv.status = 200
  /\ adv.body.kind = "object" /\ adv.body.current.kind = "null"
  /\ adv.advice = Bullet(SafetyTip)

\* C10 as stated: every answer of the advice route carries at least 1 and at
\* most 4 tips, on the rule-engine path, on the text-generation path and on
\* the path of the generic tip.
C10_OneToFourTips ==
  adv.pc = "done" =>
    (Len(renderTips(adv.advice)) >= 1 /\ Len(renderTips(adv.advice)) <= 4)

\* ------------------------------------------------------------------------
\* Forecast normalization: claim C3 (under NormSpec)
\* ------------------------------------------------------------------------
\* the position of a day among the dates: later dates have larger numbers
DateNo(day) == CHOOSE d \in DOMAIN Dates : day = <<Dates[d]>>

\* the upstream list is in chronological order
Chronological(list) ==
  LET no == [i \in 1..Len(list) |-> DateNo(DayOf(list[i].dt_txt))]
  IN \A i \in 1..(Len(list) - 1) : no[i] <= no[i + 1]

NoTwoSameDay(days) ==
  \A i, j \in 1..Len(days) : i # j => days[i].day # days[j].day
Ascending(days) ==
  LET no == [i \in 1..Len(days) |-> DateNo(days[i].day)]
  IN \A i \in 1..(Len(days) - 1) : no[i] < no[i + 1]

\* C3 as stated: for every upstream forecast list the normalized forecast has
\* at most 5 entries, no two of the same day, in ascending order of date.
C3_Original ==
  (fcOut.done /\ ~fcOut.threw) =>
    /\ Len(fcOut.forecast) <= 5
    /\ NoTwoSameDay(fcOut.forecast)
    /\ Ascending(fcOut.forecast)

\* C3 amended: for every upstream forecast list the normalized forecast has at
\* most 5 entries and no two of the same day; it is in ascending order of date
\* whenever the upstream list is in chronological order.
C3_ForecastShape ==
  (fcOut.done /\ ~fcOut.threw) =>
    /\ Len(fcOut.forecast) <= 5
    /\ NoTwoSameDay(fcOut.forecast)
    /\ Chronological(fcIn.list) => Ascending(fcOut.forecast)

\* C3's case: a chronological list of more than 5 distinct dates was cut to 5.
C3_Witness ==
  /\ fcOut.done /\ ~fcOut.threw
  /\ Chronological(fcIn.list)
  /\ Cardinality({ DayOf(fcIn.list[i].dt_txt) : i \in 1..Len(fcIn.list) }) > 5
  /\ Len(fcOut.forecast) = 5

\* ------------------------------------------------------------------------
\* The weather route: claims C1, C2, C5, C6, C7 (under WeatherSpec)
\* ------------------------------------------------------------------------
\* invocation r takes its first step, the one that validates and looks up
Arrives(r) == req[r].pc = "idle" /\ req'[r].pc # "idle"
\* invocation r answers
Answers(r) == req[r].pc # "done" /\ req'[r].pc = "done"

UpstreamCalls(r) == <<req[r].geoCalls, req[r].curCalls, req[r].fcCalls>>

\* C1 as stated: two requests for the same city up to letter case, arriving
\* within the TTL of each other and both answered 200, carry the same payload,
\* and between them issue each upstream call once.
C1_CacheIdempotence ==
  \A r1, r2 \in Reqs :
    ( /\ r1 < r2
      /\ req[r1].pc = "done" /\ req[r1].status = 200
      /\ req[r2].pc = "done" /\ req[r2].status = 200
      /\ toLowerCase(req[r1].city) = toLowerCase(req[r2].city)
      /\ req[r2].at - req[r1].at <= cacheTTLms )
    => /\ req[r1].data = req[r2].data
       /\ req[r1].geoCalls + req[r2].geoCalls = 1
       /\ req[r1].curCalls + req[r2].curCalls = 1
       /\ req[r1].fcCalls + req[r2].fcCalls = 1

\* C2: a lookup never returns an entry older than the TTL: it deletes it and
\* goes on to the geocoding call; what is answered from the cache is the entry
\* as stored; a 200 that was not answered from the cache made all three
\* upstream calls and stored its payload under its key with the time of the
\* store; and an entry leaves the cache only by the lookup of its own key
\* finding it too old.
C2_CacheExpiry ==
  [][ /\ \A r \in Reqs :
           LET key == req'[r].cacheKey
           IN /\ (Arrives(r) /\ key \in DOMAIN cache /\ now - cache[key].ts > cacheTTLms)
                   => /\ key \notin DOMAIN cache'
                      /\ req'[r].pc = "geo_fetch" /\ req'[r].geoCalls = 1
              /\ (Arrives(r) /\ req'[r].fromCache)
                   => /\ key \in DOMAIN cache /\ now - cache[key].ts <= cacheTTLms
                      /\ req'[r].data = cache[key].data /\ cache' = cache
              /\ (Answers(r) /\ req'[r].status = 200 /\ ~req'[r].fromCache)
                   => /\ UpstreamCalls(r)' = <<1, 1, 1>>
                      /\ key \in DOMAIN cache'
                      /\ cache'[key] = [data |-> req'[r].data, ts |-> now]
      /\ \A k \in DOMAIN cache :
           k \notin DOMAIN cache' =>
             \E r \in Reqs : /\ Arrives(r) /\ req'[r].cacheKey = k
                             /\ now - cache[k].ts > cacheTTLms
    ]_vars

\* C2's case: a request found a stale entry, fetched afresh and stored again.
C2_Witness ==
  \E r \in Reqs :
    /\ req[r].evicted /\ req[r].pc = "done" /\ req[r].status = 200
    /\ ~req[r].fromCache
    /\ req[r].cacheKey \in DOMAIN cache
    /\ cache[req[r].cacheKey].ts > cacheTTLms

\* the query has no city: none was sent, or only white space
IsBlank(query) ==
  query.k = "undefined" \/ \A i \in 1..Len(query.s) : IsSpace(query.s[i])

\* C5: a request without a city is answered 400 in its first step, has made no
\* upstream call, and has left the cache as it was.
C5_BlankCity ==
  [][ \A r \in Reqs :
        /\ (Arrives(r) /\ IsBlank(req'[r].query))
             => /\ req'[r].pc = "done" /\ req'[r].status = 400
                /\ req'[r].error = "city is required"
                /\ UpstreamCalls(r)' = <<0, 0, 0>>
                /\ cache' = cache
        /\ (req[r].pc = "done" /\ req[r].status = 400)
             => /\ req'[r] = req[r] /\ IsBlank(req[r].query)
    ]_vars

\* C5's case: a city of white space only was answered 400.
C5_Witness ==
  \E r \in Reqs :
    /\ req[r].query.k = "string" /\ req[r].query.s # <<>>
    /\ req[r].pc = "done" /\ req[r].status = 400

\* C6: once geocoding has answered with an empty list the request is answered
\* 404, and neither the current-conditions nor the forecast call is issued.
C6_EmptyGeocode404 ==
  \A r \in Reqs :
    req[r].geoResult = "empty" =>
      /\ req[r].pc = "done" /\ req[r].status = 404
      /\ req[r].error = "City not found"
      /\ req[r].curCalls = 0 /\ req[r].fcCalls = 0
      /\ req[r].cur = "none" /\ req[r].fc = "none"

\* C6's case: a city the geocoder does not know was answered.
C6_Witness ==
  \E r \in Reqs :
    /\ req[r].geoResult = "empty" /\ req[r].geoCalls = 1
    /\ req[r].pc = "done" /\ req[r].status = 404

\* the two weather fetches of invocation r have both settled
BothCompleted(r) == req[r].cur \notin {"none", "pending"} /\ req[r].fc \notin {"none", "pending"}

FixedError(r) ==
  /\ req[r].status = 500 /\ req[r].error = "Server error fetching weather"
  /\ req[r].data = NoData

\* C7 as stated: the two fetches are issued together, the request answers
\* only after both have completed, and a non-success status of either (or of
\* geocoding) gives the fixed 500.
C7_Original ==
  \A r \in Reqs :
    /\ req[r].curCalls = req[r].fcCalls
    /\ (req[r].pc = "done" /\ req[r].curCalls = 1) => BothCompleted(r)
    /\ (req[r].pc = "done"
          /\ (req[r].cur = "notok" \/ req[r].fc = "notok" \/ req[r].geoResult = "failed"))
         => FixedError(r)

\* C7 amended: the two fetches are issued together; a 200 that is not from the
\* cache is sent only after both have completed with a success status; when
\* neither fetch was rejected the answer is sent only after both have
\* completed (a rejected fetch is answered at once, without waiting for the
\* other); and a non-success status or a rejection of either, or a failure of
\* geocoding, gives the fixed 500 and no payload.
C7_JoinAndFail ==
  \A r \in Reqs :
    /\ req[r].curCalls = req[r].fcCalls
    /\ (req[r].cur = "none") <=> (req[r].fc = "none")
    /\ (req[r].pc = "done" /\ req[r].status = 200 /\ ~req[r].fromCache)
         => (req[r].cur = "ok" /\ req[r].fc = "ok")
    /\ (req[r].pc = "done" /\ req[r].curCalls = 1
          /\ req[r].cur # "rejected" /\ req[r].fc # "rejected")
         => BothCompleted(r)
    /\ (req[r].pc = "done"
          /\ (req[r].cur \in {"notok", "rejected"} \/ req[r].fc \in {"notok", "rejected"}
              \/ req[r].geoResult = "failed"))
         => FixedError(r)
    /\ req[r].pc \in {"cur_json", "fc_json"} => (req[r].cur = "ok" /\ req[r].fc = "ok")

\* C7's case: one fetch was rejected and the request was answered 500 while
\* the other fetch was still pending.
C7_Witness ==
  \E r \in Reqs :
    /\ req[r].pc = "done" /\ req[r].status = 500
    /\ req[r].cur = "rejected" /\ req[r].fc = "pending"

\* ------------------------------------------------------------------------
\* The weather route: claim C11 (under WeatherSpec)
\* ------------------------------------------------------------------------
\* C11 as stated: once geocoding, both fetches and both bodies have succeeded,
\* the request is answered 200 whatever nested fields the bodies lack: a
\* current body without weather, main, wind and clouds gives "" for the
\* description and undefined for the readings, and a forecast body without a
\* list, or with an entry without dt_txt, raises no error.
C11_PartialUpstream ==
  \A r \in Reqs :
    req[r].fcJson = "resolved" =>
      /\ req[r].pc = "done" /\ req[r].status = 200
      /\ req[r].current.kind = "bare" =>
           /\ req[r].data.current.description = Str(<<>>)
           /\ req[r].data.current.temp = Undefined
           /\ req[r].data.current.feels_like = Undefined
           /\ req[r].data.current.humidity = Undefined
           /\ req[r].data.current.wind_speed = Undefined
           /\ req[r].data.current.clouds = Undefined

\* ------------------------------------------------------------------------
\* The advice route: claim C12 (under AdviceSpec)
\* ------------------------------------------------------------------------
\* the offline flag is set, or no credential is configured
AdvOffline == USE_MOCK_AI \/ ~Truthy(OPENAI_API_KEY)
\* the rule engine on the body of the request: whether it throws, what it gives
AdvRuleThrows == ReadThrows(DestructureCurrent(adv.body))
AdvRuleOutput ==
  ruleBasedAdvice(DestructureCurrent(adv.body), DestructureForecast(adv.body))

\* C12 as stated: the text-generation call is issued only with the offline
\* flag off and a credential configured, and with the flag set or without a
\* credential every answer is the rule engine's output.
C12_Original ==
  /\ adv.llmCalls > 0 => (~USE_MOCK_AI /\ Truthy(OPENAI_API_KEY))
  /\ (adv.pc = "done" /\ AdvOffline) =>
       (~AdvRuleThrows /\ adv.advice = AdvRuleOutput)

\* C12 amended: the text-generation call is issued only with the offline flag
\* off and a credential configured; with the flag set (credential or not) or
\* without a credential no call is issued and none is pending, and the answer
\* is the rule engine's output, or the generic safety tip when the rule
\* engine throws on a `current` that is null.
C12_OfflineNoCall ==
  /\ adv.llmCalls > 0 => (~USE_MOCK_AI /\ Truthy(OPENAI_API_KEY))
  /\ AdvOffline =>
       /\ adv.llmCalls = 0 /\ adv.fetch = "none" /\ adv.data.kind = "none"
       /\ adv.pc \in {"idle", "done"}
       /\ adv.pc = "done" =>
            adv.advice = IF AdvRuleThrows THEN Bullet(SafetyTip) ELSE AdvRuleOutput

\* C12's case: the flag is set and a credential is present; the request was
\* answered by the rule engine with more than the default tip.
C12_Witness ==
  /\ USE_MOCK_AI /\ Truthy(OPENAI_API_KEY)
  /\ adv.pc = "done" /\ adv.llmCalls = 0
  /\ ~AdvRuleThrows /\ adv.advice = AdvRuleOutput
  /\ Len(renderTips(adv.advice)) = 4

\* ------------------------------------------------------------------------
\* The advice route: claim C13 (under AdviceSpec)
\* ------------------------------------------------------------------------
\* the call succeeded and its body has no advice text: no choices, no content
\* (absent or null), or content that is empty once trimmed
AdvNoText ==
  /\ adv.fetch = "ok"
  /\ \/ adv.data.kind = "nochoices"
     \/ /\ adv.data.kind = "content"
        /\ \/ adv.data.content.k \in {"undefined", "null"}
           \/ (adv.data.content.k = "string" /\ trim(adv.data.content.s) = <<>>)
\* the call succeeded and its body has a text that is not empty once trimmed
AdvHasText ==
  /\ adv.fetch = "ok" /\ adv.data.kind = "content"
  /\ adv.data.content.k = "string" /\ trim(adv.data.content.s) # <<>>

\* C13 as stated: a call answered with a non-success status, or answered with
\* a body without advice text, gives the rule engine's output for the body of
\* the request; a call answered with a text gives that text, trimmed.
C13_Original ==
  (adv.pc = "done" /\ adv.llmCalls = 1) =>
    /\ (adv.fetch = "notok" \/ AdvNoText) =>
         (~AdvRuleThrows /\ adv.advice = AdvRuleOutput)
    /\ AdvHasText => adv.advice = trim(adv.data.content.s)

\* C13 amended: a call answered with a non-success status whose body is then
\* read, or answered with a body without advice text, gives the rule engine's
\* output for the body of the request; a non-success answer whose body cannot
\* be read gives the generic safety tip; a call answered with a text gives
\* that text, trimmed, and not the rule engine's output.
C13_LlmFallback ==
  (adv.pc = "done" /\ adv.llmCalls = 1) =>
    /\ ((adv.fetch = "notok" /\ adv.data.kind = "text") \/ AdvNoText) =>
         (~AdvRuleThrows /\ adv.advice = AdvRuleOutput)
    /\ (adv.fetch = "notok" /\ adv.data.kind # "text") =>
         (adv.data.kind = "rejected" /\ adv.advice = Bullet(SafetyTip))
    /\ AdvHasText =>
         (adv.advice = trim(adv.data.content.s) /\ adv.advice # AdvRuleOutput)

\* C13's case: the call succeeded with a content of white space only, and the
\* rule engine's four tips were sent.
C13_Witness ==
  /\ adv.pc = "done" /\ adv.llmCalls = 1 /\ AdvNoText
  /\ adv.data.kind = "content" /\ adv.data.content.k = "string"
  /\ adv.data.content.s # <<>>
  /\ adv.advice = AdvRuleOutput /\ Len(renderTips(adv.advice)) = 4

\* ------------------------------------------------------------------------
\* The rule engine: claim C14 (under RuleSpec)
\* ------------------------------------------------------------------------
\* the temperature tips among the tips returned
RuleTempTips ==
  { i \in 1..Len(RuleShown) :
      RuleShown[i] \in { <<HeatTip>>, <<LayerTip>>, <<PleasantTip>> } }
\* current.temp is a number (and not NaN)
RuleTempValid == Field(RuleCurrent, "temp").k = "number"

\* C14 as stated: with current.temp a valid number exactly one temperature
\* tip is returned, the heat tip when temp >= 32 or feels_like >= 34, else the
\* layering tip when temp <= 15, else the pleasant tip; with current.temp not
\* a valid number none is returned; never two, whatever feels_like is.
C14_OneTempTip ==
  (ruleOut.done /\ ~ruleOut.threw) =>
    /\ Cardinality(RuleTempTips) <= 1
    /\ RuleTempValid =>
         (Cardinality(RuleTempTips) = 1 /\ RuleShown[1] = <<RulePriority[1]>>)
    /\ ~RuleTempValid => RuleTempTips = {}

\* ------------------------------------------------------------------------
\* Forecast normalization: claim C15 (under NormSpec)
\* ------------------------------------------------------------------------
\* the dates of the entries of an upstream list
DaysOf(list) == [i \in 1..Len(list) |-> DayOf(list[i].dt_txt)]
\* the positions that are the first of their date
FirstOfDay(days) ==
  { i \in 1..Len(days) : \A j \in 1..(i - 1) : days[j] # days[i] }

\* C15: the normalized forecast has one entry for each of the first 5 distinct
\* dates of the upstream list, in the order in which the dates first appear;
\* the entry of a date is made from the first upstream entry of that date
\* (its day, temp, pop and description), never from a later one; a date that
\* first appears after 5 others is absent.
C15_FirstPerDay ==
  (fcOut.done /\ ~fcOut.threw) =>
    LET list == fcIn.list
        days == DaysOf(list)
        firsts == FirstOfDay(days)
        rank == [i \in firsts |-> Cardinality({ j \in firsts : j < i }) + 1]
        n == IF Cardinality(firsts) < 5 THEN Cardinality(firsts) ELSE 5
    IN /\ Len(fcOut.forecast) = n
       /\ \A i \in firsts :
            rank[i] <= 5 =>
              /\ fcOut.forecast[rank[i]].day = days[i]
              /\ fcOut.forecast[rank[i]].temp = list[i].temp
              /\ fcOut.forecast[rank[i]].pop = list[i].pop
              /\ fcOut.forecast[rank[i]].description = list[i].description

\* C15's case: a date comes back after another date, the list has 5 distinct
\* dates, and the entry kept for the repeated date is its first.
C15_Witness ==
  /\ fcOut.done /\ ~fcOut.threw
  /\ Len(fcIn.list) = 6 /\ Len(fcOut.forecast) = 5
  /\ DayOf(fcIn.list[1].dt_txt) = DayOf(fcIn.list[3].dt_txt)
  /\ DayOf(fcIn.list[1].dt_txt) # DayOf(fcIn.list[2].dt_txt)
  /\ fcOut.forecast[1].temp = fcIn.list[1].temp
  /\ fcOut.forecast[3].temp = fcIn.list[4].temp

\* ------------------------------------------------------------------------
\* The cache: claim C16 (under CacheSpec)
\* ------------------------------------------------------------------------
\* C16: getCache hits exactly when the key is present and no more than the
\* TTL has passed since the entry's timestamp; a hit returns the payload
\* stored and leaves the whole Map, the entry's payload and timestamp
\* included, as it was; and an entry that stays in the Map changes only by a
\* setCache of its key, which stamps it with the time of that call. So the
\* timestamp is always the time of the setCache that wrote the entry, and
\* however often it is read the entry is no longer served once more than the
\* TTL has passed since then.
C16_TtlFromInsertion ==
  [][ /\ (look' # look /\ look'.op = "get") =>
           LET k == look'.key
           IN /\ look'.hit <=> (k \in DOMAIN cache /\ now - cache[k].ts <= cacheTTLms)
              /\ look'.hit => (look'.data = cache[k].data /\ cache' = cache)
      /\ \A k \in DOMAIN cache \cap DOMAIN cache' :
           cache'[k] # cache[k] =>
             /\ look'.op = "set" /\ look'.key = k
             /\ cache'[k] = [data |-> look'.data, ts |-> now]
    ]_vars

\* C16's case: an entry was hit as often as is counted and then, more than
\* the TTL after it was stored, missed and evicted.
C16_Witness ==
  /\ look.op = "get" /\ ~look.hit /\ look.evicted
  /\ look.reads = MaxReads

\* ------------------------------------------------------------------------
\* The client: claim C19 (under ClientSpec)
\* ------------------------------------------------------------------------
\* the input is blank: empty or white space only
BlankValue(value) == \A k \in 1..Len(value) : IsSpace(value[k])
\* the status is "Failed: ..." with some message
IsFailed(status) == Len(status) = 2 /\ status[1] = "Failed: "

\* C19: a run with a blank input issues no request. Otherwise one weather
\* request is issued; the advice request is issued only once the weather
\* request has come back with a success status and a readable body, and its
\* body is the weather payload received; a weather request that failed (a
\* non-success status, a rejection, an unreadable body) issues none. A run
\* that issued a request and has finished set "Done." or "Failed: ..." last,
\* "Done." only after both requests succeeded; a run whose last status is
\* "Loading..." or "Generating tips..." still waits for its weather or its
\* advice request; and when no run is waiting the status shown is neither.
C19_ClientFlow ==
  /\ \A i \in Runs :
       LET r == run[i]
       IN /\ (r.pc # "idle" /\ BlankValue(r.value)) =>
               /\ r.pc = "done" /\ r.wxCalls = 0 /\ r.aiCalls = 0
               /\ r.last = PleaseEnter
          /\ (r.pc # "idle" /\ ~BlankValue(r.value)) => r.wxCalls = 1
          /\ r.aiCalls \in {0, 1}
          /\ r.aiCalls = 1 =>
               /\ r.wxCalls = 1 /\ r.wxFetch = "ok" /\ r.wxJson = "resolved"
               /\ r.aiBody = r.wx
          /\ (r.wxFetch \in {"notok", "rejected"} \/ r.wxJson = "rejected") =>
               (r.aiCalls = 0 /\ r.pc \in {"wx_json", "done"})
          /\ (r.pc = "done" /\ r.wxCalls = 1) => (r.last = Done \/ IsFailed(r.last))
          /\ r.last = Done =>
               (r.aiCalls = 1 /\ r.aiFetch = "ok" /\ r.aiJson = "resolved")
          /\ r.last = Loading => r.pc \in {"wx_fetch", "wx_json"}
          /\ r.last = Generating => r.pc \in {"ai_fetch", "ai_json"}
  /\ (\A i \in Runs : run[i].pc \in {"idle", "done"}) =>
       elStatus \notin {Loading, Generating}

\* C19's case: a run received a payload without readings, sent it on as it
\* was, and ended with "Done." while another run ended with a failed weather
\* request.
C19_Witness ==
  \E i, j \in Runs :
    /\ run[i].pc = "done" /\ run[i].last = Done
    /\ run[i].wx.current.temp = Undefined /\ run[i].aiBody = run[i].wx
    /\ run[j].pc = "done" /\ run[j].wxFetch = "notok" /\ run[j].aiCalls = 0
    /\ IsFailed(run[j].last)

\* ------------------------------------------------------------------------
\* The weather route: claims C17 and C18 (under WeatherSpec)
\* ------------------------------------------------------------------------
\* invocation r completed geocoding, both fetches and both bodies, and
\* answered 200 with the payload it built
Completed(r) ==
  /\ req[r].pc = "done" /\ req[r].status = 200 /\ ~req[r].fromCache
  /\ req[r].geoResult = "match" /\ req[r].cur = "ok" /\ req[r].fc = "ok"
  /\ req[r].fcJson = "resolved"

\* C17: an entry enters the cache, or changes, only in the step in which a
\* request that completed geocoding, current and forecast answers 200, and
\* it is that request's payload under that request's key, stamped with the
\* time; an entry leaves only in the first step of a request for its own key
\* that finds it stale; so the step in which a request answers 400, 404
\* or 500 changes nothing in the cache, and every entry is at all times the
\* whole payload of a completed request.
C17_CacheWrites ==
  [][ /\ \A k \in DOMAIN cache' :
           (k \notin DOMAIN cache \/ cache'[k] # cache[k]) =>
             \E r \in Reqs :
               /\ Answers(r) /\ Completed(r)' /\ req'[r].cacheKey = k
               /\ cache'[k] = [data |-> req'[r].data, ts |-> now]
      /\ \A k \in DOMAIN cache \ DOMAIN cache' :
           \E r \in Reqs :
             /\ Arrives(r) /\ req'[r].cacheKey = k /\ req'[r].pc = "geo_fetch"
             /\ now - cache[k].ts > cacheTTLms
      /\ \A r \in Reqs :
           (Answers(r) /\ req'[r].status \in {400, 404, 500}) => cache' = cache
      /\ \A k \in DOMAIN cache' :
           \E r \in Reqs :
             /\ Completed(r)' /\ req'[r].cacheKey = k
             /\ cache'[k].data = req'[r].data
             /\ cache'[k].data.location.name = req'[r].geo.name
    ]_vars

\* C17's case: a request stored its payload; a later request for the same
\* key found the entry stale, evicted it and failed with 500, and the key is
\* left without an entry.
C17_Witness ==
  \E r1, r2 \in Reqs :
    /\ Completed(r1)
    /\ req[r2].cacheKey = req[r1].cacheKey /\ req[r2].evicted
    /\ req[r2].pc = "done" /\ req[r2].status = 500
    /\ req[r2].cacheKey \notin DOMAIN cache

\* the key of a query: "wx:" and its trimmed lowercase form
KeyOfQuery(query) == <<"w", "x", ":">> \o toLowerCase(trim(query.s))

\* data is built from the place a query with key k geocodes to, and from
\* what the current and the forecast service give for its coordinates
FetchedFor(data, k) ==
  \E query \in Queries \ {Undefined} :
    /\ KeyOfQuery(query) = k
    /\ LET found == GeoMatches(trim(query.s))
       IN /\ found # <<>>
          /\ data.location.name = found[1].name
          /\ data.location.country = found[1].country
          /\ data.location.lat = found[1].lat /\ data.location.lon = found[1].lon
          /\ \E c \in CurrentBodies(found[1]) :
               /\ data.current.temp = c.temp /\ data.current.dt = c.dt
               /\ data.current.humidity = c.humidity
          /\ \E f \in ForecastBodiesAt(found[1]) :
               /\ ~NormalizeThrows(f)
               /\ data.forecast = NormalizeForecast(f.list)

\* C18: under every interleaving, the payload of each 200 answer is built from
\* what was geocoded and fetched for that request's own city, its key is its
\* own query trimmed and in lowercase, and each cache entry under key k is
\* built from what was geocoded and fetched for a query with key k.
C18_NoCrossTalk ==
  /\ \A r \in Reqs :
       (req[r].pc = "done" /\ req[r].status = 200) =>
         /\ req[r].cacheKey = KeyOfQuery(req[r].query)
         /\ FetchedFor(req[r].data, req[r].cacheKey)
  /\ \A k \in DOMAIN cache : FetchedFor(cache[k].data, k)

\* C18's case: requests for two cities overlapped (the one that arrived first
\* stored last) and both were answered 200.
C18_Witness ==
  \E r1, r2 \in Reqs :
    /\ r1 < r2 /\ Completed(r1) /\ Completed(r2)
    /\ req[r1].cacheKey # req[r2].cacheKey
    /\ req[r1].cacheKey \in DOMAIN cache /\ req[r2].cacheKey \in DOMAIN cache
    /\ cache[req[r1].cacheKey].ts > cache[req[r2].cacheKey].ts

====
